---------------------------- MODULE Spec2Model ----------------------------
(***************************************************************************)
(* A model of the ride recorder of src/App.tsx: the React state of the     *)
(* App component (isRecording, route, stats), its refs (watchIdRef,        *)
(* timerRef, lastPointRef), the position subscriptions and interval        *)
(* timers the browser keeps alive on its behalf, and the handlers that     *)
(* act on them (startRecording, the watchPosition callbacks, the           *)
(* setInterval callback, stopRecording, the effect keyed on isRecording).  *)
(*                                                                         *)
(* Units.  Latitude and longitude are in thousandths of a degree,          *)
(* distances in centimetres, speeds in centimetres per second, altitudes   *)
(* in metres, duration in seconds.  A value that may be null in the        *)
(* program is the empty sequence when null and <<v>> otherwise.            *)
(***************************************************************************)
EXTENDS Integers, Sequences, FiniteSets

\* ------------------------------------------------------------------ bounds

\* Fixes appended to the route of one ride.
MaxRoute == 3
\* Seconds counted in one ride.
MaxDuration == 1
\* Calls of startRecording that get past the geolocation check.
MaxStarts == 2
\* Readings of the wall clock.
MaxNow == 2
\* Largest number of seconds formatted, besides a few of many hours.
MaxSeconds == 3700
\* Longest route sampled for the advisory service.
MaxSampleRoute == 11

\* --------------------------------------------------------------- constants

\* geo.ts: const R = 6371e3 (metres); kept here in kilometres.
EarthRadiusKm == 6371

Null == << >>

Some(v) == << v >>

\* JavaScript's (x || 0) for a number or null.
OrZero(o) == IF o = Null THEN 0 ELSE o[1]

Max(a, b) == IF a >= b THEN a ELSE b

Abs(x) == IF x < 0 THEN -x ELSE x

\* ------------------------------------------------------------------- state

VARIABLES
    hasGeolocation, \* navigator.geolocation is present
    now,            \* the wall clock as last read by Date.now()
    isRecording,    \* useState: isRecording
    rendered,       \* isRecording as of the last committed render
    route,          \* useState: route
    stats,          \* useState: stats
    watchIdRef,     \* useRef: id of the position subscription, or null
    timerRef,       \* useRef: id of the interval timer, or null
    lastPointRef,   \* useRef: the retained previous point, or null
    watches,        \* ids of the position subscriptions still live
    timers,         \* ids of the interval timers still live
    nextWatchId,    \* the id the next watchPosition returns
    nextTimerId,    \* the id the next setInterval returns
    pending,        \* calls of startRecording suspended at their await
    aiInsight,      \* useState: aiInsight, or null
    isLoadingAI,    \* useState: isLoadingAI
    inflight,       \* ids of the calls of getAIAnalysis not yet settled
    nextCall,       \* the id of the next call of getAIAnalysis
    calls,          \* history: per call of getAIAnalysis, its id, the route length
                    \* it was given and the starts completed before it
    arg,            \* the argument of the pure function under study, or null
    result,         \* its result, or null before it is applied
    hadPrev,        \* history: per route point, was a previous point retained
    lastOp          \* history: the last handler that ran, and isRecording before it

refs == << watchIdRef, timerRef, lastPointRef >>
browser == << watches, timers, nextWatchId, nextTimerId >>
advisory == << aiInsight, isLoadingAI, inflight, nextCall, calls >>
pure == << arg, result >>
vars == << hasGeolocation, now, isRecording, rendered, route, stats, refs,
           browser, pending, advisory, pure, hadPrev, lastOp >>

\* ------------------------------------------------------------------ inputs

\* What the position source may report: coords.latitude, coords.longitude,
\* coords.speed (or null), coords.altitude (or null).
Fixes ==
    { [latitude |-> 0, longitude |-> 0, speed |-> Null,       altitude |-> Null],
      [latitude |-> 0, longitude |-> 1, speed |-> Some(550),  altitude |-> Some(10)],
      [latitude |-> 1, longitude |-> 1, speed |-> Some(-100), altitude |-> Some(5)] }

\* ---------------------------------------------------------- pure functions

\* Largest k with k * k <= n, for 0 <= n <= hi * hi.
ISqrt(n, hi) == CHOOSE k \in 0..hi : k * k <= n /\ (k + 1) * (k + 1) > n

\* Centimetres of great circle per thousandth of a degree: R * pi / 180000.
CmPerMilliDegree == (EarthRadiusKm * 314159) \div 180000

\* A variant of calculateDistance that adds the two latitudes where it should
\* subtract them.
calculateDistanceLatitudeSum(p1, p2) ==
    LET dphi == p2.latitude + p1.latitude
        dlambda == p2.longitude - p1.longitude
        a == dphi * dphi + dlambda * dlambda
        c == ISqrt(10000 * a, 100 * (Abs(dphi) + Abs(dlambda)))
    IN  (CmPerMilliDegree * c) \div 100

\* geo.ts calculateDistance.  The haversine formula on points a few
\* thousandths of a degree apart at the equator, where sin x = x,
\* cos phi = 1 and atan2(sqrt a, sqrt(1 - a)) = sqrt a to the centimetre:
\* R * c = R * (pi / 180) * sqrt(dphi^2 + dlambda^2).
calculateDistance(p1, p2) ==
    LET dphi == p2.latitude - p1.latitude
        dlambda == p2.longitude - p1.longitude
        a == dphi * dphi + dlambda * dlambda
        c == ISqrt(10000 * a, 100 * (Abs(dphi) + Abs(dlambda)))
    IN  (CmPerMilliDegree * c) \div 100

\* App.tsx 91-97: the RoutePoint built from a GeolocationPosition.  The
\* timestamp field is left out: it is copied from the position and read by
\* nothing.
NewPoint(position) ==
    [latitude  |-> position.latitude,
     longitude |-> position.longitude,
     speed     |-> OrZero(position.speed),
     altitude  |-> position.altitude]

\* Number.toFixed(1) of a speed in cm/s times 3.6, in tenths of a km/h.
KmhTenths(v) == (v * 36 + 50) \div 100

\* gemini.ts 18: the average speed getAIAnalysis writes into its prompt.
PromptAvgSpeed(s) == KmhTenths(s.avgSpeed)

\* A string is the sequence of its characters.
DigitChar(d) == << "0", "1", "2", "3", "4", "5", "6", "7", "8", "9" >>[d + 1]

RECURSIVE Digits(_)
\* String(n) for a whole number n >= 0.
Digits(n) ==
    IF n < 10 THEN << DigitChar(n) >>
    ELSE Digits(n \div 10) \o << DigitChar(n % 10) >>

\* geo.ts 24: v < 10 ? "0" + v : v, as join will print it.
ZeroPad(v) == IF v < 10 THEN << "0" >> \o Digits(v) ELSE Digits(v)

RECURSIVE Join(_)
\* Array.join(":") of a sequence of strings.
Join(parts) ==
    IF parts = << >> THEN << >>
    ELSE IF Len(parts) = 1 THEN parts[1]
    ELSE parts[1] \o << ":" >> \o Join(Tail(parts))

RECURSIVE FilterFrom(_, _, _)
\* Array.filter: the elements of a from position k on (1-based) whose
\* position is in the set keep, in order.
FilterFrom(a, keep, k) ==
    IF k > Len(a) THEN << >>
    ELSE (IF k \in keep THEN << a[k] >> ELSE << >>) \o FilterFrom(a, keep, k + 1)

\* A variant of formatDuration whose filter drops every "00", whatever its
\* index.
formatDurationDropsEveryZero(seconds) ==
    LET h == seconds \div 3600
        m == (seconds % 3600) \div 60
        sec == seconds % 60
        parts == << ZeroPad(h), ZeroPad(m), ZeroPad(sec) >>
        keep == { k \in 1..3 : parts[k] # << "0", "0" >> }
    IN  Join(FilterFrom(parts, keep, 1))

\* geo.ts 19-27.
formatDuration(seconds) ==
    LET h == seconds \div 3600
        m == (seconds % 3600) \div 60
        sec == seconds % 60
        parts == << ZeroPad(h), ZeroPad(m), ZeroPad(sec) >>
        keep == { k \in 1..3 : parts[k] # << "0", "0" >> \/ k - 1 > 0 }
    IN  Join(FilterFrom(parts, keep, 1))

\* gemini.ts 10-14: one entry of sampledRoute: latitude and longitude with four
\* decimals (in ten-thousandths of a degree), speed in tenths of a km/h.
SampledPoint(p) ==
    [lat |-> p.latitude * 10, lon |-> p.longitude * 10, spd |-> KmhTenths(p.speed)]

\* A variant of SampleRoute that counts the points from 1.
SampleRouteOneBased(r) ==
    LET keep == { k \in 1..Len(r) : k % 5 = 0 }
        kept == FilterFrom(r, keep, 1)
    IN  [k \in 1..Len(kept) |-> SampledPoint(kept[k])]

\* gemini.ts 10-14: sampledRoute.
SampleRoute(r) ==
    LET keep == { k \in 1..Len(r) : (k - 1) % 5 = 0 }
        kept == FilterFrom(r, keep, 1)
    IN  [k \in 1..Len(kept) |-> SampledPoint(kept[k])]

\* App.tsx 28-35: the initial stats.
InitialStats ==
    [totalDistance |-> 0, avgSpeed |-> 0, maxSpeed |-> 0, duration |-> 0,
     startTime |-> Null, elevationGain |-> 0]

\* A variant of ResetStats that spreads the previous stats and so keeps the
\* elapsed duration of the ride before.
ResetStatsKeepDuration(t) ==
    [totalDistance |-> 0, avgSpeed |-> 0, maxSpeed |-> 0,
     duration |-> stats.duration, startTime |-> Some(t), elevationGain |-> 0]

\* App.tsx 78-85: the stats startRecording sets.
ResetStats(t) ==
    [totalDistance |-> 0, avgSpeed |-> 0, maxSpeed |-> 0, duration |-> 0,
     startTime |-> Some(t), elevationGain |-> 0]

\* A variant of IngestStats that takes the speed of the new point as the
\* maximum instead of comparing it with the maximum so far.
IngestStatsLastSpeed(prev, last, newPoint) ==
    LET distance == calculateDistance(last, newPoint)
        elev == OrZero(newPoint.altitude) - OrZero(last.altitude)
    IN  [prev EXCEPT !.totalDistance = prev.totalDistance + distance,
                     !.maxSpeed = newPoint.speed,
                     !.elevationGain = IF elev > 0 THEN prev.elevationGain + elev
                                       ELSE prev.elevationGain]

\* A variant of IngestStats that nets descents against climbs.
IngestStatsNetElevation(prev, last, newPoint) ==
    LET distance == calculateDistance(last, newPoint)
        elev == OrZero(newPoint.altitude) - OrZero(last.altitude)
    IN  [prev EXCEPT !.totalDistance = prev.totalDistance + distance,
                     !.maxSpeed = Max(prev.maxSpeed, newPoint.speed),
                     !.elevationGain = prev.elevationGain + elev]

\* App.tsx 102-115: the stats after a fix, given the retained previous point.
IngestStats(prev, last, newPoint) ==
    LET distance == calculateDistance(last, newPoint)
        elev == OrZero(newPoint.altitude) - OrZero(last.altitude)
    IN  [prev EXCEPT !.totalDistance = prev.totalDistance + distance,
                     !.maxSpeed = Max(prev.maxSpeed, newPoint.speed),
                     !.elevationGain = IF elev > 0 THEN prev.elevationGain + elev
                                       ELSE prev.elevationGain]

\* A variant of TickStats that builds the stats afresh instead of spreading
\* the previous ones.
TickStatsNoSpread(prev) == [InitialStats EXCEPT !.duration = prev.duration + 1]

\* App.tsx 124: the stats after one firing of the interval timer.
TickStats(prev) == [prev EXCEPT !.duration = prev.duration + 1]

\* A variant of AppendPoint that drops a fix equal to the last point.
AppendPointUnlessRepeated(prev, newPoint) ==
    IF Len(prev) > 0 /\ prev[Len(prev)] = newPoint THEN prev
    ELSE Append(prev, newPoint)

\* App.tsx 99: the route after a fix.
AppendPoint(prev, newPoint) == Append(prev, newPoint)

\* The handler that runs, with isRecording as it finds it.
Op(name) == [name |-> name, wasRecording |-> isRecording]

\* -------------------------------------------------------------------- Init

\* App.tsx 26-44: the state of a freshly mounted component.
InitApp ==
    /\ hasGeolocation \in BOOLEAN
    /\ now = 1
    /\ isRecording = FALSE
    /\ rendered = FALSE
    /\ route = << >>
    /\ stats = InitialStats
    /\ watchIdRef = Null
    /\ timerRef = Null
    /\ lastPointRef = Null
    /\ watches = {}
    /\ timers = {}
    /\ nextWatchId = 1
    /\ nextTimerId = 1
    /\ pending = 0
    /\ aiInsight = Null
    /\ isLoadingAI = FALSE
    /\ inflight = {}
    /\ nextCall = 1
    /\ calls = {}
    /\ result = Null
    /\ hadPrev = << >>
    /\ lastOp = [name |-> "mount", wasRecording |-> FALSE]

Init == InitApp /\ arg = Null

\* ----------------------------------------------------------------- actions

\* A variant of StartRefused without the geolocation check: the call goes on
\* to its await.
StartRefusedProceeds ==
    /\ ~rendered
    /\ ~hasGeolocation
    /\ pending' = pending + 1
    /\ lastOp' = Op("startRefused")
    /\ UNCHANGED << advisory, pure, hasGeolocation, now, isRecording, rendered, route, stats,
                    refs, browser, hadPrev >>

\* App.tsx 67-71, 313: the start button (shown while the committed render has
\* isRecording false) is pressed and no position source exists: startRecording
\* alerts and returns.
StartRefused ==
    /\ ~rendered
    /\ ~hasGeolocation
    /\ lastOp' = Op("startRefused")
    /\ UNCHANGED << advisory, pure, hasGeolocation, now, isRecording, rendered, route, stats,
                    refs, browser, pending, hadPrev >>

\* App.tsx 67-74, 313: the start button is pressed; startRecording passes the
\* geolocation check and suspends at `await requestWakeLock()`.
StartCall ==
    /\ ~rendered
    /\ hasGeolocation
    /\ pending + nextWatchId - 1 < MaxStarts
    /\ pending' = pending + 1
    /\ lastOp' = Op("startCall")
    /\ UNCHANGED << advisory, pure, hasGeolocation, now, isRecording, rendered, route, stats,
                    refs, browser, hadPrev >>

\* App.tsx 76-125: a suspended startRecording resumes: it resets the state,
\* subscribes to the position source and starts the interval timer, storing
\* the two new ids over whatever the refs held, and clears the insight shown
\* (setNearbyStops is left out: no handler modelled reads it).  Date.now() is the one place
\* the wall clock is read, so the time that went by since the last reading is
\* added here.
StartFinish ==
    /\ pending > 0
    /\ pending' = pending - 1
    /\ isRecording' = TRUE
    /\ route' = << >>
    /\ hadPrev' = << >>
    /\ now' \in now..MaxNow
    /\ stats' = ResetStats(now')
    /\ watchIdRef' = Some(nextWatchId)
    /\ watches' = watches \cup {nextWatchId}
    /\ nextWatchId' = nextWatchId + 1
    /\ timerRef' = Some(nextTimerId)
    /\ timers' = timers \cup {nextTimerId}
    /\ nextTimerId' = nextTimerId + 1
    /\ aiInsight' = Null
    /\ lastOp' = Op("start")
    /\ UNCHANGED << hasGeolocation, rendered, lastPointRef, isLoadingAI,
                    inflight, nextCall, calls, pure >>

\* App.tsx 90-118: the success callback of live subscription w receives a fix.
Ingest(w, fix) ==
    /\ w \in watches
    /\ LET newPoint == NewPoint([latitude |-> fix.latitude,
                                 longitude |-> fix.longitude,
                                 speed |-> fix.speed,
                                 altitude |-> fix.altitude])
       IN  /\ route' = AppendPoint(route, newPoint)
           /\ hadPrev' = Append(hadPrev, lastPointRef # Null)
           /\ stats' = IF lastPointRef # Null
                       THEN IngestStats(stats, lastPointRef[1], newPoint)
                       ELSE stats
           /\ lastPointRef' = Some(newPoint)
    /\ lastOp' = Op("ingest")
    /\ UNCHANGED << advisory, pure, hasGeolocation, now, isRecording, rendered, watchIdRef,
                    timerRef, browser, pending >>

\* A variant of PositionError that forgets the retained previous point.
PositionErrorDropsPoint(w) ==
    /\ w \in watches
    /\ lastPointRef' = Null
    /\ lastOp' = Op("positionError")
    /\ UNCHANGED << advisory, pure, hasGeolocation, now, isRecording, rendered, route, stats,
                    watchIdRef, timerRef, browser, pending, hadPrev >>

\* App.tsx 119: the error callback of live subscription w: it logs.
PositionError(w) ==
    /\ w \in watches
    /\ lastOp' = Op("positionError")
    /\ UNCHANGED << advisory, pure, hasGeolocation, now, isRecording, rendered, route, stats,
                    refs, browser, pending, hadPrev >>

\* App.tsx 123-125: live interval timer t fires.
Heartbeat(t) ==
    /\ t \in timers
    /\ stats.duration < MaxDuration
    /\ stats' = TickStats(stats)
    /\ lastOp' = Op("tick")
    /\ UNCHANGED << advisory, pure, hasGeolocation, now, isRecording, rendered, route, refs,
                    browser, pending, hadPrev >>

\* App.tsx 128-140, 320: the stop button (shown while the committed render has
\* isRecording true) is pressed.
stopRecording ==
    /\ rendered
    /\ watches' = IF watchIdRef # Null THEN watches \ {watchIdRef[1]} ELSE watches
    /\ watchIdRef' = Null
    /\ timers' = IF timerRef # Null THEN timers \ {timerRef[1]} ELSE timers
    /\ timerRef' = Null
    /\ isRecording' = FALSE
    /\ lastPointRef' = Null
    /\ lastOp' = Op("stop")
    /\ UNCHANGED << advisory, pure, hasGeolocation, now, rendered, route, stats, nextWatchId,
                    nextTimerId, pending, hadPrev >>

\* App.tsx 174-187: React commits a render in which isRecording differs from
\* the last committed one: the cleanup of the effect keyed on isRecording runs
\* (it cancels whatever the refs name, and leaves the refs as they are), then
\* the effect runs again.
Commit ==
    /\ rendered # isRecording
    /\ rendered' = isRecording
    /\ watches' = IF watchIdRef # Null THEN watches \ {watchIdRef[1]} ELSE watches
    /\ timers' = IF timerRef # Null THEN timers \ {timerRef[1]} ELSE timers
    /\ lastOp' = Op("commit")
    /\ UNCHANGED << advisory, pure, hasGeolocation, now, isRecording, route, stats, refs,
                    nextWatchId, nextTimerId, pending, hadPrev >>

Next ==
    \/ StartRefused
    \/ StartCall
    \/ StartFinish
    \/ \E w \in watches, fix \in Fixes :
            Len(route) < MaxRoute /\ Ingest(w, fix)
    \/ \E w \in watches : PositionError(w)
    \/ \E t \in timers : Heartbeat(t)
    \/ stopRecording
    \/ Commit

Spec == Init /\ [][Next]_vars

\* ------------------------------------------------ formatDuration on its own

\* The whole seconds formatted: every count up to MaxSeconds, and a few of ten
\* hours and more.
FormatInputs == (0..MaxSeconds) \cup {35999, 36000, 86399, 360000, 362439}

InitFormat ==
    /\ InitApp
    /\ hasGeolocation
    /\ \E seconds \in FormatInputs : arg = Some(seconds)

\* geo.ts 19-27: formatDuration is applied.
ApplyFormatDuration ==
    /\ result = Null
    /\ result' = Some(formatDuration(arg[1]))
    /\ lastOp' = Op("formatDuration")
    /\ UNCHANGED << advisory, arg, hasGeolocation, now, isRecording, rendered,
                    route, stats, refs, browser, pending, hadPrev >>

NextFormat == ApplyFormatDuration

SpecFormat == InitFormat /\ [][NextFormat]_vars

\* ---------------------------------------------------- sampling on its own

\* The points the sampled routes are made of.
SamplePoints == { NewPoint(fix) : fix \in { f \in Fixes : f.speed # Null } }

\* Every route of at most MaxSampleRoute of them.
SampleRoutes == UNION { [1..n -> SamplePoints] : n \in 0..MaxSampleRoute }

InitSample ==
    /\ InitApp
    /\ hasGeolocation
    /\ \E r \in SampleRoutes : arg = Some(r)

\* gemini.ts 10-14: the route is sampled.
ApplySampleRoute ==
    /\ result = Null
    /\ result' = Some(SampleRoute(arg[1]))
    /\ lastOp' = Op("sampledRoute")
    /\ UNCHANGED << advisory, arg, hasGeolocation, now, isRecording, rendered,
                    route, stats, refs, browser, pending, hadPrev >>

NextSample == ApplySampleRoute

SpecSample == InitSample /\ [][NextSample]_vars

\* ------------------------------------------------ the advisory request

\* App.tsx 143: the fewest route points an advisory request is sent with.
MinAdvisoryPoints == 5
\* The longest route of a ride that is followed by advisory requests.
MaxAdvisoryRoute == 5
\* The most calls of getAIAnalysis.
MaxCalls == 2

\* The fixes of a ride that is followed by advisory requests.
AdvisoryFixes == { f \in Fixes : f.latitude = 1 }

\* A variant of TooShort that lets a route of four points through.
TooShortOffByOne(r) == Len(r) < MinAdvisoryPoints - 1

\* App.tsx 143: the route is too short for an advisory request.
TooShort(r) == Len(r) < MinAdvisoryPoints

\* App.tsx 262: the "Analyze My Ride" button is disabled.
AnalyzeDisabled ==
    rendered \/ Len(route) < MinAdvisoryPoints \/ isLoadingAI

\* App.tsx 229-265: a button bound to handleGetAIAnalysis can be pressed:
\* "Refresh Analysis" (never disabled) while an insight is shown, otherwise
\* "Analyze My Ride" unless disabled.
CanPressAnalysis == aiInsight # Null \/ ~AnalyzeDisabled

\* App.tsx 143-146: handleGetAIAnalysis with a route that is too short: an
\* alert, and nothing else.
AnalysisRefused ==
    /\ CanPressAnalysis
    /\ TooShort(route)
    /\ lastOp' = Op("analysisRefused")
    /\ UNCHANGED << advisory, pure, hasGeolocation, now, isRecording, rendered,
                    route, stats, refs, browser, pending, hadPrev >>

\* App.tsx 147-149: handleGetAIAnalysis up to its await: the loading flag is
\* set and getAIAnalysis is called with the stats and the route.
AnalysisCall ==
    /\ CanPressAnalysis
    /\ ~TooShort(route)
    /\ nextCall <= MaxCalls
    /\ isLoadingAI' = TRUE
    /\ inflight' = inflight \cup {nextCall}
    /\ nextCall' = nextCall + 1
    /\ calls' = calls \cup {[id |-> nextCall, points |-> Len(route),
                               starts |-> nextWatchId - 1]}
    /\ lastOp' = Op("analysisCall")
    /\ UNCHANGED << aiInsight, pure, hasGeolocation, now, isRecording,
                    rendered, route, stats, refs, browser, pending, hadPrev >>

\* App.tsx 149-150, 154-156: call id of getAIAnalysis resolves: its insight is
\* shown and the loading flag is cleared.
AnalysisResolve(id) ==
    /\ id \in inflight
    /\ inflight' = inflight \ {id}
    /\ aiInsight' = Some(id)
    /\ isLoadingAI' = FALSE
    /\ lastOp' = Op("analysisResolve")
    /\ UNCHANGED << nextCall, calls, pure, hasGeolocation, now, isRecording,
                    rendered, route, stats, refs, browser, pending, hadPrev >>

\* A variant of AnalysisReject without the finally block.
AnalysisRejectKeepsLoading(id) ==
    /\ id \in inflight
    /\ inflight' = inflight \ {id}
    /\ lastOp' = Op("analysisReject")
    /\ UNCHANGED << aiInsight, isLoadingAI, nextCall, calls, pure,
                    hasGeolocation, now, isRecording, rendered, route, stats,
                    refs, browser, pending, hadPrev >>

\* App.tsx 151-156: call id of getAIAnalysis rejects: an alert, and the loading
\* flag is cleared.
AnalysisReject(id) ==
    /\ id \in inflight
    /\ inflight' = inflight \ {id}
    /\ isLoadingAI' = FALSE
    /\ lastOp' = Op("analysisReject")
    /\ UNCHANGED << aiInsight, nextCall, calls, pure, hasGeolocation, now,
                    isRecording, rendered, route, stats, refs, browser,
                    pending, hadPrev >>

\* The mounted App with a position source.
InitAdvisory ==
    /\ InitApp
    /\ hasGeolocation
    /\ arg = Null

\* The handlers that write what an advisory request reads (the route, the
\* insight, the loading flag, the rendered buttons), and the request itself.
NextAdvisory ==
    \/ StartCall
    \/ StartFinish
    \/ \E w \in watches, fix \in AdvisoryFixes :
            Len(route) < MaxAdvisoryRoute /\ Ingest(w, fix)
    \/ stopRecording
    \/ Commit
    \/ AnalysisRefused
    \/ AnalysisCall
    \/ \E id \in inflight : AnalysisResolve(id)
    \/ \E id \in inflight : AnalysisReject(id)

SpecAdvisory == InitAdvisory /\ [][NextAdvisory]_vars

\* ------------------------------------------------- what the claims speak of

RECURSIVE PathLength(_)
\* The sum of the distances between consecutive points of r.
PathLength(r) ==
    IF Len(r) < 2 THEN 0
    ELSE PathLength(SubSeq(r, 1, Len(r) - 1))
         + calculateDistance(r[Len(r) - 1], r[Len(r)])

RECURSIVE ClimbSum(_)
\* The sum of the strictly positive altitude differences between consecutive
\* points of r, a null altitude taken as 0.
ClimbSum(r) ==
    IF Len(r) < 2 THEN 0
    ELSE LET d == OrZero(r[Len(r)].altitude) - OrZero(r[Len(r) - 1].altitude)
         IN  ClimbSum(SubSeq(r, 1, Len(r) - 1)) + (IF d > 0 THEN d ELSE 0)

\* The largest of 0 and the members of the set S of integers.
MaxOf(S) == CHOOSE m \in S \cup {0} : \A x \in S \cup {0} : m >= x

\* The largest speed among all points of r, a negative one counting as 0.
MaxReported(r) == MaxOf({ r[i].speed : i \in 1..Len(r) })

\* The largest speed among the points of r that arrived while a previous
\* point was retained.
MaxCounted(r, h) == MaxOf({ r[i].speed : i \in { j \in 1..Len(r) : h[j] } })

\* totalDistance / duration when duration > 0, else 0.
DerivedAvgSpeed(s) ==
    IF s.duration > 0 THEN s.totalDistance \div s.duration ELSE 0

\* ------------------------------------------------------------------ claims

\* C1: a position sample delivered while the ride is Idle is a no-op: route,
\* totalDistance, maxSpeed and elevationGain are unchanged by it.
C1_IdleIngestIsNoOp ==
    [][(lastOp'.name = "ingest" /\ ~isRecording)
        => /\ route' = route
           /\ stats'.totalDistance = stats.totalDistance
           /\ stats'.maxSpeed = stats.maxSpeed
           /\ stats'.elevationGain = stats.elevationGain]_vars

\* C2: stop leaves route and stats as last computed, and while Idle nothing
\* but a start changes them: a tick in Idle is a no-op, and so is a stop.
C2_FrozenWhileIdle ==
    [][(lastOp'.name = "stop" \/ (~isRecording /\ lastOp'.name # "start"))
        => (route' = route /\ stats' = stats)]_vars

\* C3: at most one position subscription and one interval timer are live at
\* any time, and none is live while Idle.
C3_OneRideAtATime ==
    /\ Cardinality(watches) <= 1
    /\ Cardinality(timers) <= 1
    /\ ~isRecording => (watches = {} /\ timers = {})

\* C4: right after a start, from Idle or from Recording, route is empty,
\* totalDistance, avgSpeed, maxSpeed, elevationGain and duration are 0 and
\* startTime is the current time.
C4_StartResets ==
    lastOp.name = "start"
        => /\ isRecording
           /\ route = << >>
           /\ stats.totalDistance = 0
           /\ stats.avgSpeed = 0
           /\ stats.maxSpeed = 0
           /\ stats.elevationGain = 0
           /\ stats.duration = 0
           /\ stats.startTime = Some(now)

\* A start has just completed while a ride was already recording.
C4_Witness ==
    /\ lastOp = [name |-> "start", wasRecording |-> TRUE]
    /\ route = << >>
    /\ stats.duration = 0

\* C5: start clears the retained previous point, and the first sample after a
\* start adds no distance and no elevation gain.
C5_StartClearsPreviousPoint ==
    /\ lastOp.name = "start" => lastPointRef = Null
    /\ (lastOp.name = "ingest" /\ Len(route) = 1)
           => (stats.totalDistance = 0 /\ stats.elevationGain = 0)

\* C6: totalDistance is the sum of the distances between consecutive points
\* of the route.
C6_DistanceIsPathLength == stats.totalDistance = PathLength(route)

\* C7: avgSpeed is totalDistance / duration when duration > 0 and 0 otherwise,
\* and that is the value written into the advisory prompt.
C7_AvgSpeedIsDerived ==
    /\ stats.avgSpeed = DerivedAvgSpeed(stats)
    /\ PromptAvgSpeed(stats) = KmhTenths(DerivedAvgSpeed(stats))

\* C8 as claimed: maxSpeed is the largest speed among all ingested samples of
\* the ride, a missing or negative one counting as 0.
C8_MaxSpeedIsLargestReported == stats.maxSpeed = MaxReported(route)

\* C8 as amended: maxSpeed is the largest speed among the samples ingested
\* since the last start while a previous point was retained (so not the first
\* one), a missing or negative one counting as 0; 0 when there is none.
C8_MaxSpeedIsLargestCounted == stats.maxSpeed = MaxCounted(route, hadPrev)

\* A ride of three samples whose first reported the largest speed: the speeds
\* counted are those of the second and third.
C8_Witness ==
    /\ lastOp.name = "ingest"
    /\ isRecording
    /\ Len(route) = 3
    /\ hadPrev = << FALSE, TRUE, TRUE >>
    /\ route[1].speed = 550
    /\ route[2].speed = -100
    /\ route[3].speed = 0
    /\ stats.maxSpeed = 0

\* C9: elevationGain is the sum of the strictly positive altitude differences
\* between consecutive samples, a missing altitude taken as 0.
C9_ElevationGainIsClimbSum == stats.elevationGain = ClimbSum(route)

\* C10: from one start to the next, no step makes totalDistance, maxSpeed,
\* elevationGain or duration smaller.
C10_NonDecreasingWithinSession ==
    [][lastOp'.name # "start"
        => /\ stats'.totalDistance >= stats.totalDistance
           /\ stats'.maxSpeed >= stats.maxSpeed
           /\ stats'.elevationGain >= stats.elevationGain
           /\ stats'.duration >= stats.duration]_vars

\* A descent has just been ingested in a ride that has climbed, moved and
\* lasted.
C10_Witness ==
    /\ lastOp.name = "ingest"
    /\ Len(route) = 3
    /\ OrZero(route[3].altitude) < OrZero(route[2].altitude)
    /\ stats.elevationGain > 0
    /\ stats.totalDistance > 0
    /\ stats.maxSpeed > 0
    /\ stats.duration > 0

\* Two points with the same latitude and longitude.
SameCoordinates(p, q) == p.latitude = q.latitude /\ p.longitude = q.longitude

\* C11: every delivered sample is appended to the end of the route, whatever
\* it holds, and no step but a start changes the route in any other way.
C11_RouteIsAppendOnly ==
    [][/\ lastOp'.name = "ingest"
           => \E fix \in Fixes : route' = route \o << NewPoint(fix) >>
       /\ lastOp'.name = "start" => route' = << >>
       /\ lastOp'.name \notin {"ingest", "start"} => route' = route]_vars

\* A fix equal to the one before it has just been appended to a recording
\* ride's route.
C11_Witness ==
    /\ lastOp = [name |-> "ingest", wasRecording |-> TRUE]
    /\ Len(route) = 3
    /\ route[1] # route[2]
    /\ route[2] = route[3]

\* C15: with no position source a start is refused: the state stays Idle,
\* route and stats (startTime too) stay as they were, and no subscription,
\* timer or suspended start exists.
C15_NoSourceNoRide ==
    ~hasGeolocation
        => /\ ~isRecording
           /\ route = << >>
           /\ stats = [totalDistance |-> 0, avgSpeed |-> 0, maxSpeed |-> 0,
                       duration |-> 0, startTime |-> Null, elevationGain |-> 0]
           /\ watches = {} /\ timers = {}
           /\ watchIdRef = Null /\ timerRef = Null
           /\ pending = 0

\* A start has just been refused.
C15_Witness == ~hasGeolocation /\ lastOp.name = "startRefused"

\* C16: a failed position read changes nothing: the ride stays as it is, with
\* its route, stats, retained previous point, subscriptions and timers.
C16_PositionErrorChangesNothing ==
    [][lastOp'.name = "positionError"
        => UNCHANGED << isRecording, route, stats, lastPointRef, watchIdRef,
                        timerRef, watches, timers >>]_vars

\* A position read has just failed in a recording ride that retains a point.
C16_Witness ==
    /\ lastOp = [name |-> "positionError", wasRecording |-> TRUE]
    /\ isRecording
    /\ lastPointRef # Null
    /\ watches # {}

\* C17: a tick adds exactly 1 to duration and leaves route, totalDistance,
\* maxSpeed, elevationGain and startTime alone; an ingest leaves duration and
\* startTime alone.
C17_TickAndIngestAreIndependent ==
    [][/\ lastOp'.name = "tick"
           => /\ stats'.duration = stats.duration + 1
              /\ route' = route
              /\ stats'.totalDistance = stats.totalDistance
              /\ stats'.maxSpeed = stats.maxSpeed
              /\ stats'.elevationGain = stats.elevationGain
              /\ stats'.startTime = stats.startTime
       /\ lastOp'.name = "ingest"
           => /\ stats'.duration = stats.duration
              /\ stats'.startTime = stats.startTime]_vars

\* A tick has just fired in a recording ride that has two samples and some
\* distance.
C17_Witness ==
    /\ lastOp = [name |-> "tick", wasRecording |-> TRUE]
    /\ Len(route) = 2
    /\ stats.totalDistance > 0
    /\ stats.elevationGain > 0
    /\ stats.duration = 1

\* C19: a fix with the latitude and longitude of the retained previous point
\* adds exactly 0 to totalDistance.
C19_DuplicateFixAddsZero ==
    [][(/\ lastOp'.name = "ingest"
        /\ lastPointRef # Null
        /\ SameCoordinates(lastPointRef[1], lastPointRef'[1]))
        => stats'.totalDistance = stats.totalDistance]_vars

\* A fix off the equator has just been ingested twice in a row in a ride that
\* has some distance.
C19_Witness ==
    /\ lastOp.name = "ingest"
    /\ Len(route) = 3
    /\ hadPrev[3]
    /\ SameCoordinates(route[2], route[3])
    /\ route[3].latitude = 1
    /\ stats.totalDistance > 0

\* C20: nothing but a stop cancels a position subscription or an interval
\* timer: they stay live for the whole ride.
C20_OnlyStopCancels ==
    [][lastOp'.name # "stop"
        => (watches \subseteq watches' /\ timers \subseteq timers')]_vars

\* The two decimal digits of v, for 0 <= v < 100.
TwoDigits(v) == << DigitChar(v \div 10), DigitChar(v % 10) >>

\* H:MM:SS, M:SS or SS: zero hours, and zero minutes under zero hours, left
\* out, the first component shown unpadded unless it is the seconds.
SuppressedFormat(seconds) ==
    LET h == seconds \div 3600
        m == (seconds % 3600) \div 60
        sec == seconds % 60
    IN  IF h > 0
        THEN Digits(h) \o << ":" >> \o TwoDigits(m) \o << ":" >> \o TwoDigits(sec)
        ELSE IF m > 0 THEN Digits(m) \o << ":" >> \o TwoDigits(sec)
        ELSE TwoDigits(sec)

\* HH:MM:SS, or MM:SS when the hours are zero: every component shown has at
\* least two digits, and the minutes are always shown.
PaddedFormat(seconds) ==
    LET h == seconds \div 3600
        m == (seconds % 3600) \div 60
        sec == seconds % 60
        hours == IF h >= 10 THEN Digits(h) ELSE TwoDigits(h)
    IN  (IF h > 0 THEN hours \o << ":" >> ELSE << >>)
        \o TwoDigits(m) \o << ":" >> \o TwoDigits(sec)

\* C12 as claimed: formatDuration renders H:MM:SS, M:SS or SS, leading zero
\* hours and minutes suppressed and the leading component unpadded, so 3661
\* gives "1:01:01", 61 gives "1:01" and 9 gives "09".
C12_FormatSuppressesLeadingZeros ==
    result # Null => result[1] = SuppressedFormat(arg[1])

\* C12 as amended: formatDuration renders HH:MM:SS when the hours are not
\* zero and MM:SS otherwise, every component zero-padded to two digits, so
\* 3661 gives "01:01:01", 61 gives "01:01" and 9 gives "00:09".
C12_FormatPadsEveryComponent ==
    result # Null => result[1] = PaddedFormat(arg[1])

\* 3661 seconds have been formatted as "01:01:01".
C12_Witness ==
    /\ arg = Some(3661)
    /\ result = Some(<< "0", "1", ":", "0", "1", ":", "0", "1" >>)

\* C18: the sampled route holds exactly the route points at positions 0, 5,
\* 10, ... in route order: ceil(n / 5) entries for a route of n points.
C18_EveryFifthPoint ==
    result # Null
        => LET r == arg[1]
               sampled == result[1]
           IN  /\ Len(sampled) = (Len(r) + 4) \div 5
               /\ \A k \in 1..Len(sampled) :
                      sampled[k] = SampledPoint(r[5 * (k - 1) + 1])

\* A route of eleven points whose sixth and eleventh differ from their
\* neighbours has been sampled to three entries.
C18_Witness ==
    /\ arg # Null
    /\ result # Null
    /\ Len(arg[1]) = 11
    /\ Len(result[1]) = 3
    /\ arg[1][5] # arg[1][6]
    /\ arg[1][6] # arg[1][7]
    /\ arg[1][10] # arg[1][11]
    /\ arg[1][1] # arg[1][2]

\* C13: an advisory request made while the route has fewer than 5 points is
\* refused locally: whichever way the handler goes, no call of getAIAnalysis
\* is made or left in flight by it, and aiInsight, route and stats stay as
\* they were.
C13_ShortRouteIsRefusedLocally ==
    [][(/\ Len(route) < MinAdvisoryPoints
        /\ lastOp'.name \in {"analysisRefused", "analysisCall"})
       => /\ lastOp'.name = "analysisRefused"
          /\ nextCall' = nextCall
          /\ inflight' = inflight
          /\ calls' = calls
          /\ isLoadingAI' = isLoadingAI
          /\ aiInsight' = aiInsight
          /\ route' = route
          /\ stats' = stats]_vars

\* A request has just been refused, on a route that has points but fewer than
\* 5, after an earlier request went out.
C13_Witness ==
    /\ lastOp.name = "analysisRefused"
    /\ Len(route) > 0
    /\ Len(route) < MinAdvisoryPoints
    /\ calls # {}

\* C14: when a call of getAIAnalysis fails, route and stats are left as they
\* were, the insight shown before is not replaced, and the loading flag is
\* false afterwards.
C14_FailureLeavesRideAndInsight ==
    [][lastOp'.name = "analysisReject"
       => /\ route' = route
          /\ stats' = stats
          /\ aiInsight' = aiInsight
          /\ isLoadingAI' = FALSE]_vars

\* A call has just failed while the insight of an earlier call is shown, and
\* the loading flag is off with no other call in flight.
C14_Witness ==
    /\ lastOp.name = "analysisReject"
    /\ aiInsight # Null
    /\ inflight = {}
    /\ ~isLoadingAI

\* The starts completed before the call whose insight is shown was made.
StartsBeforeShownInsight ==
    (CHOOSE c \in calls : c.id = aiInsight[1]).starts

\* C21: after start resets aiInsight to null it stays null while the new ride
\* is recording: an insight shown during a recording is never the result of a
\* request that went out before that ride's start.
C21_NoInsightOfEarlierRide ==
    (isRecording /\ aiInsight # Null)
        => StartsBeforeShownInsight = nextWatchId - 1

====
